---- MODULE Spec2Model ----
(***************************************************************************)
(* AOU GPA calculator: the semester/course ledger, the selection state,   *)
(* and the GPA aggregator of the GPACalculator component, with the        *)
(* SemesterManagement and CourseSearch handlers that mutate the ledger.   *)
(*                                                                         *)
(* Numbers.  Grade points are kept in tenths (A = 40 for 4.0) and GPA      *)
(* values in hundredths (367 for 3.67), so that every quantity is an       *)
(* integer.  Math.round(x) is floor(x + 1/2).                              *)
(*                                                                         *)
(* Semester ids.  The code takes Date.now().toString(); the decimal        *)
(* rendering is injective and ids are only ever compared for equality, so  *)
(* an id is kept as the clock value it was rendered from.                  *)
(***************************************************************************)
EXTENDS Integers, Sequences, FiniteSets, TLC

VARIABLES
    allFaculties,      \* static data, empty until loadData resolves
    allPrograms,
    allCourses,
    selectedFaculty,   \* "" when nothing is selected
    selectedProgram,
    semesters,         \* the ledger: sequence of [id, name, courses]
    cumulativeGPA,     \* displayed values, written by calculateGPA
    totalCredits,
    completedCourses,
    toast,             \* title of the last notice shown, "" when none
    now,               \* Date.now()
    store,             \* the server's user record of this session id
    userRecord,        \* data of the ['/api/user-record', sessionId] query
    isInitialLoadComplete,
    mutation,          \* the save or update request in flight, if any
    fetching,          \* a GET of the user record is in flight
    searchQuery,       \* text of the CourseSearch input, as a sequence of characters
    userRecords,       \* MemStorage.userRecords: the Map from session id to record
    currentId,         \* MemStorage.currentId
    response           \* what the last call of the storage returned or threw

vars == <<allFaculties, allPrograms, allCourses, selectedFaculty,
          selectedProgram, semesters, cumulativeGPA, totalCredits,
          completedCourses, toast, now, store, userRecord,
          isInitialLoadComplete, mutation, fetching, searchQuery,
          userRecords, currentId, response>>

staticData == <<allFaculties, allPrograms, allCourses>>
selection  == <<selectedFaculty, selectedProgram>>
display    == <<cumulativeGPA, totalCredits, completedCourses>>
session    == <<store, userRecord, isInitialLoadComplete, mutation, fetching>>
server     == <<userRecords, currentId, response>>

----------------------------------------------------------------------------
(* Bounds of the exploration *)

MaxClock    == 1   \* Date.now() takes the values 0..MaxClock
MaxLedger   == 2   \* courses and names are edited in ledgers of at most MaxLedger semesters
MaxEntries  == 2   \* a course is added only while the ledger holds fewer entries
MaxInSemesters == 2   \* semesters of a ledger given to the aggregator
MaxInEntries   == 3   \* course entries of a ledger given to the aggregator
MaxQueryLen    == 4   \* characters of a search query
MaxRecords     == 2   \* records created in the storage

(* Program constants *)

MaxSemesters == 12

----------------------------------------------------------------------------
(* Reference data (faculties.json, programs.json, courses.json) *)

Faculties ==
    << [code |-> "itc", name |-> "Computer Studies"],
       [code |-> "bus", name |-> "Business Studies"] >>

Programs ==
    << [code |-> "cs", name |-> "Computer Science", facultyCode |-> "itc",
        requiredCreditHours |-> 24],
       [code |-> "ba", name |-> "Business Administration", facultyCode |-> "bus",
        requiredCreditHours |-> 16] >>

Catalog ==
    << [code |-> "M110",  name |-> "Python Programming",
        credits |-> 8, facultyCode |-> {"itc"}],
       [code |-> "MS102", name |-> "Mathematics for Computing",
        credits |-> 4, facultyCode |-> {"itc"}],
       [code |-> "EL112", name |-> "English for Academic Purposes",
        credits |-> 4, facultyCode |-> {"itc", "bus"}] >>

(* a grade scale with A worth 4.5 *)
gradePoints_HighA ==
    [g \in {"A", "B+", "B", "C+", "C", "D", "F"} |->
        CASE g = "A"  -> 45
          [] g = "B+" -> 35
          [] g = "B"  -> 30
          [] g = "C+" -> 25
          [] g = "C"  -> 20
          [] g = "D"  -> 15
          [] g = "F"  -> 0]

(* Grade scale, in tenths of a point *)
gradePoints ==
    [g \in {"A", "B+", "B", "C+", "C", "D", "F"} |->
        CASE g = "A"  -> 40
          [] g = "B+" -> 35
          [] g = "B"  -> 30
          [] g = "C+" -> 25
          [] g = "C"  -> 20
          [] g = "D"  -> 15
          [] g = "F"  -> 0]

gradeOptions == <<"A", "B+", "B", "C+", "C", "D", "F">>

Range(s) == {s[i] : i \in DOMAIN s}

----------------------------------------------------------------------------
(* Array helpers of the handlers *)

\* semesters.find(s => s.id === semesterId): index of the first match, 0 if none
FindSemester(sems, semesterId) ==
    IF \E i \in DOMAIN sems : sems[i].id = semesterId
    THEN CHOOSE i \in DOMAIN sems :
            /\ sems[i].id = semesterId
            /\ \A j \in 1..(i - 1) : sems[j].id # semesterId
    ELSE 0

\* semesters.map(s => s.id === semesterId ? updatedSemester : s)
updateSemester(sems, semesterId, updatedSemester) ==
    [i \in DOMAIN sems |->
        IF sems[i].id = semesterId THEN updatedSemester ELSE sems[i]]

\* `Semester ${n}`
SemesterName(n) == "Semester " \o ToString(n)

----------------------------------------------------------------------------
(* GPA aggregator *)

\* truncation instead of rounding
MathRound_Floor(n, d) == n \div d

\* Math.round(n / d) for n >= 0, d > 0: floor(n/d + 1/2)
MathRound(n, d) == (2 * n + d) \div (2 * d)

\* course.grade && gradePoints[course.grade] !== undefined
IsGraded(course) == course.grade # "" /\ course.grade \in DOMAIN gradePoints

\* the forEach body counting every course as completed, graded or not
RECURSIVE ForEachCourse_CountsAll(_, _)
ForEachCourse_CountsAll(courses, acc) ==
    IF courses = <<>> THEN acc
    ELSE LET course == Head(courses)
             next   == IF IsGraded(course)
                       THEN [points  |-> acc.points + gradePoints[course.grade] * course.credits,
                             credits |-> acc.credits + course.credits,
                             count   |-> acc.count + 1]
                       ELSE [acc EXCEPT !.count = @ + 1]
         IN  ForEachCourse_CountsAll(Tail(courses), next)

\* The body of the forEach over one course list, folded from the left.
\* acc = [points |-> tenths of grade points, credits |-> ..., count |-> ...]
RECURSIVE ForEachCourse(_, _)
ForEachCourse(courses, acc) ==
    IF courses = <<>> THEN acc
    ELSE LET course == Head(courses)
             next   == IF IsGraded(course)
                       THEN [points  |-> acc.points + gradePoints[course.grade] * course.credits,
                             credits |-> acc.credits + course.credits,
                             count   |-> acc.count + 1]
                       ELSE acc
         IN  ForEachCourse(Tail(courses), next)

\* the outer loop stopping after the first semester
ForEachSemester_FirstOnly(sems, acc) ==
    IF sems = <<>> THEN acc ELSE ForEachCourse(Head(sems).courses, acc)

\* semesters.forEach(semester => semester.courses.forEach(...))
RECURSIVE ForEachSemester(_, _)
ForEachSemester(sems, acc) ==
    IF sems = <<>> THEN acc
    ELSE ForEachSemester(Tail(sems), ForEachCourse(Head(sems).courses, acc))

ZeroAcc == [points |-> 0, credits |-> 0, count |-> 0]

\* Math.round(gpa * 100), gpa = totalGradePoints / totalCredits or 0.
\* points is in tenths, so gpa * 100 = 10 * points / credits.
RoundedGPA(acc) ==
    IF acc.credits > 0 THEN MathRound(10 * acc.points, acc.credits) ELSE 0

\* the three values calculateGPA stores
GPAResult(sems) ==
    LET acc == ForEachSemester(sems, ZeroAcc)
    IN  [gpa       |-> RoundedGPA(acc),
         credits   |-> acc.credits,
         completed |-> acc.count]

\* getSemesterGPA(semester), in hundredths
getSemesterGPA(semester) == RoundedGPA(ForEachCourse(semester.courses, ZeroAcc))

\* getCurrentSemesterGPA reading the first semester instead of the last
getCurrentSemesterGPA_First(sems) ==
    IF Len(sems) = 0 THEN 0
    ELSE RoundedGPA(ForEachCourse(sems[1].courses, ZeroAcc))

\* getCurrentSemesterGPA(), in hundredths
getCurrentSemesterGPA(sems) ==
    IF Len(sems) = 0 THEN 0
    ELSE RoundedGPA(ForEachCourse(sems[Len(sems)].courses, ZeroAcc))

----------------------------------------------------------------------------
(* Rendering conditions *)

\* {selectedFaculty && selectedProgram && <SemesterManagement .../>}
SemesterManagementShown == selectedFaculty # "" /\ selectedProgram # ""

\* {semesters.length > 0 && <Card> ... Calculate GPA ...}
CalculateShown == Len(semesters) > 0

\* allPrograms.filter(program => program.facultyCode === selectedFaculty)
filteredPrograms ==
    SelectSeq(allPrograms, LAMBDA p : p.facultyCode = selectedFaculty)

\* allCourses.filter(course => course.facultyCode.includes(selectedFaculty))
coursesByFaculty ==
    SelectSeq(allCourses, LAMBDA c : selectedFaculty \in c.facultyCode)

\* semester.courses.map(c => c.code)
existingCourses(semester) == [k \in DOMAIN semester.courses |-> semester.courses[k].code]

----------------------------------------------------------------------------
\* no record: a 404 of the server, undefined as query data
NoRecord == [exists |-> FALSE]

\* no request in flight
Idle == [kind |-> "idle"]

\* the revision without persistence: nothing is stored or fetched
NoSession ==
    /\ store = NoRecord
    /\ userRecord = NoRecord
    /\ isInitialLoadComplete = FALSE
    /\ mutation = Idle
    /\ fetching = FALSE

\* a Map without entries
EmptyMap == <<>>

\* nothing returned or thrown yet
NoResponse == [call |-> [op |-> "none"], outcome |-> [kind |-> "none"]]

\* the storage right after construction, never called
NoServer ==
    /\ userRecords = EmptyMap
    /\ currentId = 1
    /\ response = NoResponse

(* Initial state: the component right after construction *)

Init ==
    /\ NoSession
    /\ allFaculties = <<>>
    /\ allPrograms = <<>>
    /\ allCourses = <<>>
    /\ selectedFaculty = ""
    /\ selectedProgram = ""
    /\ semesters = <<>>
    /\ cumulativeGPA = 0
    /\ totalCredits = 0
    /\ completedCourses = 0
    /\ toast = ""
    /\ now = 0
    /\ searchQuery = <<>>
    /\ NoServer

----------------------------------------------------------------------------
(* Environment *)

\* the three JSON files resolve
loadData ==
    /\ allFaculties = <<>>
    /\ allFaculties' = Faculties
    /\ allPrograms' = Programs
    /\ allCourses' = Catalog
    /\ UNCHANGED <<selection, semesters, display, toast, now>>

\* the millisecond clock advances
Tick ==
    /\ now < MaxClock
    /\ now' = now + 1
    /\ UNCHANGED <<staticData, selection, semesters, display, toast>>

----------------------------------------------------------------------------
(* Selection state *)

\* FacultyProgramSelection.handleFacultyChange followed by the effect on
\* [selectedFaculty].  The effect body sees the semesters of the render in
\* which the faculty changed.  The Select reports a change of value only.
handleFacultyChange ==
    \E f \in {allFaculties[i].code : i \in DOMAIN allFaculties} :
        /\ f # selectedFaculty
        /\ selectedFaculty' = f
        /\ selectedProgram' = ""
        /\ IF f # "" /\ Len(semesters) > 0
           THEN /\ semesters' = <<>>
                /\ cumulativeGPA' = 0
                /\ totalCredits' = 0
                /\ completedCourses' = 0
                /\ toast' = "Faculty Changed"
           ELSE UNCHANGED <<semesters, display, toast>>
        /\ UNCHANGED <<staticData, now>>

\* onProgramChange = setSelectedProgram, offered the programs of the faculty
onProgramChange ==
    \E p \in {filteredPrograms[i].code : i \in DOMAIN filteredPrograms} :
        /\ selectedFaculty # ""
        /\ p # selectedProgram
        /\ selectedProgram' = p
        /\ UNCHANGED <<staticData, selectedFaculty, semesters, display, toast, now>>

----------------------------------------------------------------------------
(* Ledger operations *)

\* addSemester with the capacity test off by one (> instead of >=)
addSemester_OffByOne ==
    /\ SemesterManagementShown
    /\ IF Len(semesters) > MaxSemesters
       THEN /\ toast' = "Maximum semesters reached"
            /\ UNCHANGED semesters
       ELSE /\ semesters' = Append(semesters,
                                   [id      |-> now,
                                    name    |-> SemesterName(Len(semesters) + 1),
                                    courses |-> <<>>])
            /\ UNCHANGED toast
    /\ UNCHANGED <<staticData, selection, display, now>>

addSemester ==
    /\ SemesterManagementShown
    /\ IF Len(semesters) >= MaxSemesters
       THEN /\ toast' = "Maximum semesters reached"
            /\ UNCHANGED semesters
       ELSE /\ semesters' = Append(semesters,
                                   [id      |-> now,
                                    name    |-> SemesterName(Len(semesters) + 1),
                                    courses |-> <<>>])
            /\ UNCHANGED toast
    /\ UNCHANGED <<staticData, selection, display, now>>

\* removeSemester(semesterId) from the trash button of rendered semester i
removeSemesterAt(i) ==
    /\ LET semesterId == semesters[i].id
       IN  semesters' = SelectSeq(semesters, LAMBDA s : s.id # semesterId)
    /\ UNCHANGED <<staticData, selection, display, toast, now>>

removeSemester ==
    /\ SemesterManagementShown
    /\ \E i \in DOMAIN semesters : removeSemesterAt(i)

\* number of course entries in the ledger
RECURSIVE TotalEntries(_)
TotalEntries(sems) ==
    IF sems = <<>> THEN 0 ELSE Len(Head(sems).courses) + TotalEntries(Tail(sems))

\* names typed into the semester name field
NameInputs == {"Fall"}

\* grades offered by the grade Select
GradeInputs == {"A", "C+"}

\* SemesterManagement.updateSemesterName, through onUpdateSemester
updateSemesterName ==
    /\ SemesterManagementShown
    /\ \E i \in DOMAIN semesters, newName \in NameInputs :
          LET semesterId == semesters[i].id
              found      == FindSemester(semesters, semesterId)
              semester   == semesters[found]
          IN  /\ semesters[i].name # newName
              /\ semesters' =
                    IF found # 0
                    THEN updateSemester(semesters, semesterId,
                                        [semester EXCEPT !.name = newName])
                    ELSE semesters
    /\ UNCHANGED <<staticData, selection, display, toast, now>>

\* SemesterManagement.addCourseToSemester: the ledger after onUpdateSemester
addCourseToSemester(sems, semesterId, course) ==
    LET found == FindSemester(sems, semesterId)
    IN  IF found # 0
        THEN updateSemester(sems, semesterId,
                            [sems[found] EXCEPT !.courses = Append(@, course)])
        ELSE sems

\* { ...course }: the entry without a grade of its own
NewEntry_NoGrade(course) ==
    [code        |-> course.code,
     name        |-> course.name,
     credits     |-> course.credits,
     facultyCode |-> course.facultyCode,
     grade       |-> "undefined"]

\* { ...course, grade: "" }
NewEntry(course) ==
    [code        |-> course.code,
     name        |-> course.name,
     credits     |-> course.credits,
     facultyCode |-> course.facultyCode,
     grade       |-> ""]

\* CourseSearch.handleCourseSelect(course) in the search box rendered for
\* semester i; onCourseSelect is addCourseToSemester with that semester's id.
handleCourseSelectAt(i, course) ==
    /\ IF course.code \in Range(existingCourses(semesters[i]))
       THEN /\ toast' = "Course already added"
            /\ UNCHANGED semesters
       ELSE /\ semesters' = addCourseToSemester(semesters, semesters[i].id,
                                                NewEntry(course))
            /\ toast' = "Course added"
    /\ UNCHANGED <<staticData, selection, display, now>>

\* the user picks a course of the selected faculty in one of the search boxes
handleCourseSelect ==
    /\ SemesterManagementShown
    /\ \E i \in DOMAIN semesters, c \in DOMAIN coursesByFaculty :
          handleCourseSelectAt(i, coursesByFaculty[c])

\* SemesterManagement.removeCourseFromSemester: the ledger after onUpdateSemester
removeCourseFromSemesterOf(sems, semesterId, courseCode) ==
    LET found == FindSemester(sems, semesterId)
    IN  IF found # 0
        THEN updateSemester(sems, semesterId,
                [sems[found] EXCEPT
                    !.courses = SelectSeq(@, LAMBDA c : c.code # courseCode)])
        ELSE sems

\* the trash button of a rendered course row
removeCourseFromSemester ==
    /\ SemesterManagementShown
    /\ \E i \in DOMAIN semesters :
          \E k \in DOMAIN semesters[i].courses :
              semesters' = removeCourseFromSemesterOf(
                              semesters, semesters[i].id, semesters[i].courses[k].code)
    /\ UNCHANGED <<staticData, selection, display, toast, now>>

\* SemesterManagement.updateCourseGrade: the ledger after onUpdateSemester
updateCourseGradeOf(sems, semesterId, courseCode, grade) ==
    LET found == FindSemester(sems, semesterId)
    IN  IF found # 0
        THEN updateSemester(sems, semesterId,
                [sems[found] EXCEPT
                    !.courses = [k \in DOMAIN @ |->
                                    IF @[k].code = courseCode
                                    THEN [@[k] EXCEPT !.grade = grade]
                                    ELSE @[k]]])
        ELSE sems

\* the grade Select of a rendered course row
updateCourseGrade ==
    /\ SemesterManagementShown
    /\ \E i \in DOMAIN semesters :
          \E k \in DOMAIN semesters[i].courses, grade \in GradeInputs :
              /\ semesters[i].courses[k].grade # grade
              /\ semesters' = updateCourseGradeOf(
                                 semesters, semesters[i].id,
                                 semesters[i].courses[k].code, grade)
    /\ UNCHANGED <<staticData, selection, display, toast, now>>

\* the Calculate GPA button
calculateGPA ==
    /\ CalculateShown
    /\ LET r == GPAResult(semesters)
       IN  /\ cumulativeGPA' = r.gpa
           /\ totalCredits' = r.credits
           /\ completedCourses' = r.completed
    /\ toast' = "GPA Calculated"
    /\ UNCHANGED <<staticData, selection, semesters, now>>

----------------------------------------------------------------------------
(* The calculator, from a fresh page load *)

\* Exploration bounds.  Every handler above is the whole handler; the
\* bounds below only limit which ledgers the user is taken to act on:
\* names and courses are edited, semesters removed and the clock watched
\* while the ledger is small; a ledger is grown past MaxLedger semesters
\* (up to the capacity) while it holds no course entry; grades are set
\* while the ledger holds fewer than MaxEntries entries, and Calculate GPA
\* is pressed on ledgers of at most one entry (the aggregator is run on
\* ledgers of every shape under SpecGPA).
SmallLedger  == Len(semesters) <= MaxLedger
MayGrow      == Len(semesters) < MaxLedger \/ TotalEntries(semesters) = 0
MayAddEntry  == SmallLedger /\ TotalEntries(semesters) < MaxEntries
MayGrade     == TotalEntries(semesters) < MaxEntries
MayCalculate == TotalEntries(semesters) <= 1

Next ==
    \/ (loadData /\ UNCHANGED <<session, searchQuery, server>>)
    \/ (SmallLedger /\ Tick /\ UNCHANGED <<session, searchQuery, server>>)
    \/ (handleFacultyChange /\ UNCHANGED <<session, searchQuery, server>>)
    \/ (onProgramChange /\ UNCHANGED <<session, searchQuery, server>>)
    \/ (MayGrow /\ addSemester /\ UNCHANGED <<session, searchQuery, server>>)
    \/ (SmallLedger /\ removeSemester /\ UNCHANGED <<session, searchQuery, server>>)
    \/ (SmallLedger /\ updateSemesterName /\ UNCHANGED <<session, searchQuery, server>>)
    \/ (MayAddEntry /\ handleCourseSelect /\ UNCHANGED <<session, searchQuery, server>>)
    \/ (removeCourseFromSemester /\ UNCHANGED <<session, searchQuery, server>>)
    \/ (MayGrade /\ updateCourseGrade /\ UNCHANGED <<session, searchQuery, server>>)
    \/ (MayCalculate /\ calculateGPA /\ UNCHANGED <<session, searchQuery, server>>)

Spec == Init /\ [][Next]_vars

----------------------------------------------------------------------------
(* The aggregator on given ledgers: the ledger is an input, and the        *)
(* Calculate GPA button is pressed on it.                                  *)

\* grades an entry of a given ledger may carry: none, a string that is
\* not on the scale, and keys of the scale from its top to its bottom
InputGrades == {"", "X", "A", "B+", "B", "C+", "F"}

\* sum of the first n values of a sequence of numbers
RECURSIVE PrefixSum(_, _)
PrefixSum(size, n) == IF n = 0 THEN 0 ELSE size[n] + PrefixSum(size, n - 1)

\* The ledger that n successive addSemester calls, one per millisecond,
\* and the selection of size[i] courses in semester i make, once graded:
\* the entries of semester i are the next size[i] picks of the catalog
InputLedger(n, size, pick, grade) ==
    [i \in 1..n |->
        [id      |-> i,
         name    |-> SemesterName(i),
         courses |-> [j \in 1..size[i] |->
                        LET k == PrefixSum(size, i - 1) + j
                        IN  [NewEntry(Catalog[pick[k]]) EXCEPT !.grade = grade[k]]]]]

\* the courses of a semester were selected in the order of the catalog
InitGPA ==
    /\ NoSession
    /\ allFaculties = Faculties
    /\ allPrograms = Programs
    /\ allCourses = Catalog
    /\ selectedFaculty = "itc"
    /\ selectedProgram = "cs"
    /\ \E n \in 0..MaxInSemesters :
          \E size \in [1..n -> 0..Len(Catalog)] :
             /\ PrefixSum(size, n) <= MaxInEntries
             /\ \E pick \in [1..PrefixSum(size, n) -> DOMAIN Catalog] :
                   /\ \A i \in 1..n : \A j \in 1..(size[i] - 1) :
                         pick[PrefixSum(size, i - 1) + j] < pick[PrefixSum(size, i - 1) + j + 1]
                   /\ \E grade \in [1..PrefixSum(size, n) -> InputGrades] :
                         semesters = InputLedger(n, size, pick, grade)
    /\ cumulativeGPA = 0
    /\ totalCredits = 0
    /\ completedCourses = 0
    /\ toast = ""
    /\ now = Len(semesters)
    /\ searchQuery = <<>>
    /\ NoServer

NextGPA == calculateGPA /\ UNCHANGED <<session, searchQuery, server>>

SpecGPA == InitGPA /\ [][NextGPA]_vars

----------------------------------------------------------------------------
(* The revision with persistence.  The component keeps the same handlers   *)
(* and adds a user record on the server, the query that reads it, the two  *)
(* mutations that write it, and the effects that load and save.            *)
(*                                                                         *)
(* A commit of React is one step: the handler's state change followed by   *)
(* the effects whose dependencies changed, each effect seeing the values   *)
(* of the render it belongs to.  A request in flight resolves in a step of *)
(* its own.  Only this page writes the record of its session id.           *)

\* insertUserRecordSchema.parse: objects keep the declared keys only
ParseCourse(course) ==
    [code |-> course.code, name |-> course.name,
     credits |-> course.credits, grade |-> course.grade]

ParseSemester(semester) ==
    [id |-> semester.id, name |-> semester.name,
     courses |-> [k \in DOMAIN semester.courses |-> ParseCourse(semester.courses[k])]]

insertUserRecordSchema(data) ==
    [exists      |-> TRUE,
     facultyCode |-> data.facultyCode,
     programCode |-> data.programCode,
     semesters   |-> [i \in DOMAIN data.semesters |-> ParseSemester(data.semesters[i])]]

\* updatedAt of a record, kept relative to the copy the page holds:
\* "later" when the record was written after that copy was served, "held"
\* when it is the copy served.  Every write takes a new Date and so makes
\* the record differ from any copy served before it.
Stamp(record, when) ==
    [k \in DOMAIN record \cup {"updatedAt"} |->
        IF k = "updatedAt" THEN when ELSE record[k]]

\* the server's handling of a request; an update of a missing record fails
createUserRecord(data) == Stamp(insertUserRecordSchema(data), "later")

updateUserRecord(existing, data) ==
    IF existing.exists THEN Stamp(insertUserRecordSchema(data), "later") ELSE existing

\* the record as the GET answers it, which is the copy the page then holds
Served(record) == IF record.exists THEN Stamp(record, "held") ELSE record

ServerApply(existing, request) ==
    IF request.kind = "POST" THEN createUserRecord(request.data)
    ELSE updateUserRecord(existing, request.data)

RequestSucceeds(existing, request) == request.kind = "POST" \/ existing.exists

\* hasDataChanged of the save effect; the two JSON texts are equal exactly
\* when the two semester lists are, key by key
hasDataChanged(record, faculty, program, sems) ==
    \/ ~ record.exists
    \/ record.facultyCode # faculty
    \/ record.programCode # program
    \/ record.semesters # sems

\* The save effect: the request in flight after the effect has run in a
\* render with these values
saveEffect(complete, faculty, program, sems, record, inFlight) ==
    IF ~ complete \/ faculty = "" \/ program = "" THEN inFlight
    ELSE IF inFlight # Idle THEN inFlight
    ELSE IF ~ hasDataChanged(record, faculty, program, sems) /\ record.exists THEN inFlight
    ELSE [kind |-> IF record.exists THEN "PUT" ELSE "POST",
          data |-> [facultyCode |-> faculty, programCode |-> program,
                    semesters |-> sems]]

\* the save effect after a handler has changed the selection or the ledger
SaveAfter ==
    /\ mutation' = saveEffect(isInitialLoadComplete, selectedFaculty',
                              selectedProgram', semesters', userRecord, mutation)
    /\ UNCHANGED <<store, userRecord, isInitialLoadComplete, fetching, searchQuery,
                   server>>

\* The page right after mount: the mount effects have run with the query
\* still loading, which marks the initial load complete
InitSession ==
    /\ allFaculties = Faculties
    /\ allPrograms = Programs
    /\ allCourses = Catalog
    /\ selectedFaculty = ""
    /\ selectedProgram = ""
    /\ semesters = <<>>
    /\ cumulativeGPA = 0
    /\ totalCredits = 0
    /\ completedCourses = 0
    /\ toast = ""
    /\ now = 0
    /\ searchQuery = <<>>
    /\ NoServer
    /\ store = NoRecord
    /\ userRecord = NoRecord
    /\ isInitialLoadComplete = TRUE
    /\ mutation = Idle
    /\ fetching = TRUE

\* the faculty change leaving the program selection as it is
SessionFacultyChange_KeepsProgram ==
    \E f \in {allFaculties[i].code : i \in DOMAIN allFaculties} :
        /\ f # selectedFaculty
        /\ selectedFaculty' = f
        /\ UNCHANGED selectedProgram
        /\ IF f # "" /\ userRecord.exists /\ userRecord.facultyCode # f
           THEN /\ semesters' = <<>>
                /\ cumulativeGPA' = 0
                /\ totalCredits' = 0
                /\ completedCourses' = 0
                /\ toast' = "Faculty Changed"
           ELSE UNCHANGED <<semesters, display, toast>>
        /\ UNCHANGED <<staticData, now>>
        /\ SaveAfter

\* handleFacultyChange of the selection card, then the effect on
\* [selectedFaculty], then the save effect
SessionFacultyChange ==
    \E f \in {allFaculties[i].code : i \in DOMAIN allFaculties} :
        /\ f # selectedFaculty
        /\ selectedFaculty' = f
        /\ selectedProgram' = ""
        /\ IF f # "" /\ userRecord.exists /\ userRecord.facultyCode # f
           THEN /\ semesters' = <<>>
                /\ cumulativeGPA' = 0
                /\ totalCredits' = 0
                /\ completedCourses' = 0
                /\ toast' = "Faculty Changed"
           ELSE UNCHANGED <<semesters, display, toast>>
        /\ UNCHANGED <<staticData, now>>
        /\ SaveAfter

\* the load effects adding the stored semesters to the ledger
FetchResolve_Appends ==
    /\ fetching
    /\ fetching' = FALSE
    /\ userRecord' = Served(store)
    /\ store' = Served(store)
    /\ UNCHANGED <<staticData, display, toast, now, searchQuery, server>>
    /\ IF store = userRecord \/ ~ store.exists
       THEN UNCHANGED <<selection, semesters, isInitialLoadComplete, mutation>>
       ELSE /\ selectedFaculty' = store.facultyCode
            /\ selectedProgram' = store.programCode
            /\ semesters' = semesters \o store.semesters
            /\ isInitialLoadComplete' = TRUE
            /\ mutation' = saveEffect(TRUE, store.facultyCode, store.programCode,
                                      semesters \o store.semesters, store, mutation)

\* the load effects followed by a faculty-change effect that clears
FetchResolve_Clears ==
    /\ fetching
    /\ fetching' = FALSE
    /\ userRecord' = Served(store)
    /\ store' = Served(store)
    /\ UNCHANGED <<staticData, now, searchQuery, server>>
    /\ IF store = userRecord \/ ~ store.exists
       THEN UNCHANGED <<selection, semesters, display, toast,
                        isInitialLoadComplete, mutation>>
       ELSE /\ selectedFaculty' = store.facultyCode
            /\ selectedProgram' = ""
            /\ semesters' = <<>>
            /\ cumulativeGPA' = 0
            /\ totalCredits' = 0
            /\ completedCourses' = 0
            /\ toast' = "Faculty Changed"
            /\ isInitialLoadComplete' = TRUE
            /\ UNCHANGED mutation

\* The GET of the user record resolves.  Query data that is equal to the
\* data held keeps its identity, and no effect runs.  Otherwise the save
\* effect of that render runs with the state as it was, the load effects
\* replace the selection and the ledger, and the effects of the next
\* render run on the loaded state.
FetchResolve ==
    /\ fetching
    /\ fetching' = FALSE
    /\ userRecord' = Served(store)
    /\ store' = Served(store)
    /\ UNCHANGED <<staticData, display, toast, now, searchQuery, server>>
    /\ IF store = userRecord \/ ~ store.exists
       THEN UNCHANGED <<selection, semesters, isInitialLoadComplete, mutation>>
       ELSE LET first == saveEffect(isInitialLoadComplete, selectedFaculty,
                                    selectedProgram, semesters, store, mutation)
            IN  /\ selectedFaculty' = store.facultyCode
                /\ selectedProgram' = store.programCode
                /\ semesters' = store.semesters
                /\ isInitialLoadComplete' = TRUE
                /\ mutation' = saveEffect(TRUE, store.facultyCode, store.programCode,
                                          store.semesters, store, first)

\* The request in flight is answered.  On success the query is invalidated
\* and fetched again; either way isPending falls and the save effect runs.
MutationSettle ==
    /\ mutation # Idle
    /\ store' = ServerApply(store, mutation)
    /\ fetching' = (fetching \/ RequestSucceeds(store, mutation))
    /\ mutation' = saveEffect(isInitialLoadComplete, selectedFaculty,
                              selectedProgram, semesters, userRecord, Idle)
    /\ UNCHANGED <<staticData, selection, semesters, display, toast, now,
                   userRecord, isInitialLoadComplete, searchQuery, server>>

\* The page is loaded again: the component state starts over, the session
\* id and the server keep theirs; a request in flight may still arrive.
Reload ==
    /\ store' \in {store, ServerApply(store, IF mutation = Idle
                                             THEN [kind |-> "PUT", data |-> store]
                                             ELSE mutation)}
    /\ selectedFaculty' = ""
    /\ selectedProgram' = ""
    /\ semesters' = <<>>
    /\ cumulativeGPA' = 0
    /\ totalCredits' = 0
    /\ completedCourses' = 0
    /\ toast' = ""
    /\ userRecord' = NoRecord
    /\ isInitialLoadComplete' = TRUE
    /\ mutation' = Idle
    /\ fetching' = TRUE
    /\ searchQuery' = <<>>
    /\ UNCHANGED <<staticData, now, server>>

\* Exploration bounds of the persistent revision.  The handlers and the
\* steps above are whole; the bounds limit where the user acts.  While the
\* stored ledger is below MaxLedger semesters the user does everything
\* between requests, and acts on an entry-free ledger below MaxLedger
\* semesters while a request is in flight.  Past that, between requests,
\* the user adds semesters to an entry-free ledger up to the capacity and
\* loads the page again.  Until the first record has been loaded the user
\* also changes the faculty of a ledger below MaxLedger semesters that
\* holds entries.
Quiet          == mutation = Idle /\ ~ fetching
Short          == Len(semesters) < MaxLedger
StoreShort     == IF store.exists THEN Len(store.semesters) < MaxLedger ELSE TRUE
Window         == StoreShort /\ (IF Quiet THEN TRUE
                                 ELSE Short /\ TotalEntries(semesters) = 0)
SessionMayGrow == IF Window /\ Short THEN TRUE
                  ELSE Quiet /\ TotalEntries(semesters) = 0
SessionMayAdd  == Window /\ Short /\ TotalEntries(semesters) = 0
MayReload      == IF Quiet THEN TRUE ELSE Window
MayChangeFaculty == IF Window THEN TRUE
                    ELSE StoreShort /\ ~ userRecord.exists /\ Short

NextSession ==
    \/ (Window /\ Tick /\ UNCHANGED <<session, searchQuery, server>>)
    \/ (MayChangeFaculty /\ SessionFacultyChange)
    \/ (Window /\ onProgramChange /\ SaveAfter)
    \/ (SessionMayGrow /\ addSemester /\ SaveAfter)
    \/ (Window /\ SmallLedger /\ removeSemester /\ SaveAfter)
    \/ (Window /\ Short /\ updateSemesterName /\ SaveAfter)
    \/ (SessionMayAdd /\ handleCourseSelect /\ SaveAfter)
    \/ (Window /\ removeCourseFromSemester /\ SaveAfter)
    \/ (Window /\ updateCourseGrade /\ SaveAfter)
    \/ (Quiet /\ SmallLedger /\ calculateGPA /\ UNCHANGED <<session, searchQuery, server>>)
    \/ FetchResolve
    \/ MutationSettle
    \/ (MayReload /\ Reload)

SpecSession == InitSession /\ [][NextSession]_vars

\* The persistent revision with requests that are answered in the end:
\* a GET that is in flight resolves and a create or update that is in
\* flight is answered.
SpecLive ==
    /\ SpecSession
    /\ WF_vars(FetchResolve)
    /\ WF_vars(MutationSettle)

\* A create or an update fails at the client: the request was lost before
\* the server handled it or the answer was lost after.  mutationFn throws,
\* onSuccess does not run, isPending falls and the save effect runs.
MutationFail_Resets ==
    /\ mutation # Idle
    /\ store' \in {store, ServerApply(store, mutation)}
    /\ selectedFaculty' = ""
    /\ selectedProgram' = ""
    /\ semesters' = <<>>
    /\ mutation' = Idle
    /\ UNCHANGED <<staticData, display, toast, now, userRecord,
                   isInitialLoadComplete, fetching, searchQuery, server>>

MutationFail ==
    /\ mutation # Idle
    /\ store' \in {store, ServerApply(store, mutation)}
    /\ mutation' = saveEffect(isInitialLoadComplete, selectedFaculty,
                              selectedProgram, semesters, userRecord, Idle)
    /\ UNCHANGED <<staticData, selection, semesters, display, toast, now,
                   userRecord, isInitialLoadComplete, fetching, searchQuery,
                   server>>

\* The GET fails: queryFn catches the error and returns undefined, which
\* the query takes as a failure and keeps the data it held.
FetchFail ==
    /\ fetching
    /\ fetching' = FALSE
    /\ UNCHANGED <<staticData, selection, semesters, display, toast, now,
                   store, userRecord, isInitialLoadComplete, mutation,
                   searchQuery, server>>

\* The persistent revision with persistence calls that may fail.  The
\* user acts between requests, on a page that holds the stored record, and
\* on a ledger below MaxLedger semesters.
Synced == Quiet /\ userRecord = store /\ Short

NextFaulty ==
    \/ (Synced /\ Tick /\ UNCHANGED <<session, searchQuery, server>>)
    \/ (Synced /\ SessionFacultyChange)
    \/ (Synced /\ onProgramChange /\ SaveAfter)
    \/ (Synced /\ addSemester /\ SaveAfter)
    \/ (Synced /\ removeSemester /\ SaveAfter)
    \/ (Synced /\ updateSemesterName /\ SaveAfter)
    \/ (Synced /\ handleCourseSelect /\ SaveAfter)
    \/ (Synced /\ removeCourseFromSemester /\ SaveAfter)
    \/ (Synced /\ updateCourseGrade /\ SaveAfter)
    \/ FetchResolve
    \/ MutationSettle
    \/ MutationFail
    \/ FetchFail

SpecFaulty == InitSession /\ [][NextFaulty]_vars

----------------------------------------------------------------------------
(* Course search: the CourseSearch component of one semester *)

\* The characters of the catalog's codes and names.  A string is kept as
\* the sequence of its UTF-16 code units where its characters are looked at.
Text(s) ==
    IF s = "M110" THEN
        <<"M", "1", "1", "0">>
    ELSE IF s = "MS102" THEN
        <<"M", "S", "1", "0", "2">>
    ELSE IF s = "EL112" THEN
        <<"E", "L", "1", "1", "2">>
    ELSE IF s = "Python Programming" THEN
        <<"P", "y", "t", "h", "o", "n", " ", "P", "r", "o", "g", "r", "a",
        "m", "m", "i", "n", "g">>
    ELSE IF s = "Mathematics for Computing" THEN
        <<"M", "a", "t", "h", "e", "m", "a", "t", "i", "c", "s", " ", "f",
        "o", "r", " ", "C", "o", "m", "p", "u", "t", "i", "n", "g">>
    ELSE IF s = "English for Academic Purposes" THEN
        <<"E", "n", "g", "l", "i", "s", "h", " ", "f", "o", "r", " ", "A",
        "c", "a", "d", "e", "m", "i", "c", " ", "P", "u", "r", "p", "o",
        "s", "e", "s">>
    ELSE <<>>

\* the lower-case letter of each upper-case Latin letter
LowerCase ==
    [A |-> "a", B |-> "b", C |-> "c", D |-> "d", E |-> "e", F |-> "f",
     G |-> "g", H |-> "h", I |-> "i", J |-> "j", K |-> "k", L |-> "l",
     M |-> "m", N |-> "n", O |-> "o", P |-> "p", Q |-> "q", R |-> "r",
     S |-> "s", T |-> "t", U |-> "u", V |-> "v", W |-> "w", X |-> "x",
     Y |-> "y", Z |-> "z"]

\* String.prototype.toLowerCase on the characters used here
toLowerCase(t) ==
    [k \in DOMAIN t |-> IF t[k] \in DOMAIN LowerCase THEN LowerCase[t[k]] ELSE t[k]]

\* String.prototype.includes: q occurs in t as a contiguous run
includes(t, q) ==
    \E k \in 0..(Len(t) - Len(q)) : SubSeq(t, k + 1, k + Len(q)) = q

\* the query test of the filter, on one course
MatchesQuery(course, query) ==
    \/ includes(toLowerCase(Text(course.code)), toLowerCase(query))
    \/ includes(toLowerCase(Text(course.name)), toLowerCase(query))

\* filteredCourses comparing the text as typed
filteredCourses_CaseSensitive(courses, faculty, query, existing) ==
    IF faculty = "" \/ Len(courses) = 0 THEN <<>>
    ELSE LET coursesByFaculty1 == SelectSeq(courses, LAMBDA c : faculty \in c.facultyCode)
             coursesByFaculty2 ==
                 IF Len(query) > 1
                 THEN SelectSeq(coursesByFaculty1,
                                LAMBDA c : \/ includes(Text(c.code), query)
                                           \/ includes(Text(c.name), query))
                 ELSE coursesByFaculty1
         IN  SelectSeq(coursesByFaculty2, LAMBDA c : c.code \notin Range(existing))

\* filteredCourses without the last filter
filteredCourses_KeepsExisting(courses, faculty, query, existing) ==
    IF faculty = "" \/ Len(courses) = 0 THEN <<>>
    ELSE LET coursesByFaculty1 == SelectSeq(courses, LAMBDA c : faculty \in c.facultyCode)
         IN  IF Len(query) > 1
             THEN SelectSeq(coursesByFaculty1, LAMBDA c : MatchesQuery(c, query))
             ELSE coursesByFaculty1

\* filteredCourses filtering by every non-empty query
filteredCourses_AnyLength(courses, faculty, query, existing) ==
    IF faculty = "" \/ Len(courses) = 0 THEN <<>>
    ELSE LET coursesByFaculty1 == SelectSeq(courses, LAMBDA c : faculty \in c.facultyCode)
             coursesByFaculty2 ==
                 IF Len(query) > 0
                 THEN SelectSeq(coursesByFaculty1, LAMBDA c : MatchesQuery(c, query))
                 ELSE coursesByFaculty1
         IN  SelectSeq(coursesByFaculty2, LAMBDA c : c.code \notin Range(existing))

\* the useMemo of CourseSearch
filteredCourses(courses, faculty, query, existing) ==
    IF faculty = "" \/ Len(courses) = 0 THEN <<>>
    ELSE LET coursesByFaculty1 == SelectSeq(courses, LAMBDA c : faculty \in c.facultyCode)
             coursesByFaculty2 ==
                 IF Len(query) > 1
                 THEN SelectSeq(coursesByFaculty1, LAMBDA c : MatchesQuery(c, query))
                 ELSE coursesByFaculty1
         IN  SelectSeq(coursesByFaculty2, LAMBDA c : c.code \notin Range(existing))

\* the list rendered by the search box of the first semester
SearchResults ==
    filteredCourses(allCourses, selectedFaculty, searchQuery,
                    existingCourses(semesters[1]))

\* characters typed into the search box
Alphabet == {"p", "y", "Y", "t", "h", "1"}

RECURSIVE QueriesOfLength(_)
QueriesOfLength(n) ==
    IF n = 0 THEN {<<>>}
    ELSE {Append(q, ch) : q \in QueriesOfLength(n - 1), ch \in Alphabet}

Queries == UNION {QueriesOfLength(n) : n \in 0..MaxQueryLen}

\* entries of the catalog courses numbered in picked, in catalog order
EntriesOf(picked) ==
    LET chosen == SelectSeq(Catalog, LAMBDA c : \E k \in picked : Catalog[k] = c)
    IN  [k \in DOMAIN chosen |-> NewEntry(chosen[k])]

\* One search box with its inputs: the catalog loaded or not, a faculty
\* or none, a semester holding any of the catalog's courses, any query
InitSearch ==
    /\ NoSession
    /\ allFaculties = Faculties
    /\ allPrograms = Programs
    /\ allCourses \in {<<>>, Catalog}
    /\ selectedFaculty \in {""} \cup {Faculties[i].code : i \in DOMAIN Faculties}
    /\ selectedProgram \in {""} \cup {Programs[i].code : i \in
                                {j \in DOMAIN Programs :
                                    Programs[j].facultyCode = selectedFaculty}}
    /\ \E picked \in SUBSET DOMAIN Catalog :
          semesters = <<[id |-> 0, name |-> SemesterName(1),
                         courses |-> EntriesOf(picked)]>>
    /\ cumulativeGPA = 0
    /\ totalCredits = 0
    /\ completedCourses = 0
    /\ toast = ""
    /\ now = 1
    /\ searchQuery \in Queries
    /\ NoServer

\* the combobox button is enabled and the popover can be opened
SearchEnabled ==
    SemesterManagementShown /\ selectedFaculty # "" /\ Len(allCourses) # 0

\* CommandInput.onValueChange = setSearchQuery: a character is typed or erased
setSearchQuery ==
    /\ SearchEnabled
    /\ \/ \E ch \in Alphabet :
             /\ Len(searchQuery) < MaxQueryLen
             /\ searchQuery' = Append(searchQuery, ch)
       \/ /\ Len(searchQuery) > 0
          /\ searchQuery' = SubSeq(searchQuery, 1, Len(searchQuery) - 1)
    /\ UNCHANGED <<staticData, selection, semesters, display, toast, now, session,
                   server>>

\* CommandItem.onSelect of a listed course: handleCourseSelect(course),
\* which also clears the query
selectListedCourse ==
    /\ SearchEnabled
    /\ \E c \in DOMAIN SearchResults :
          handleCourseSelectAt(1, SearchResults[c])
    /\ searchQuery' = <<>>
    /\ UNCHANGED <<session, server>>

NextSearch ==
    \/ setSearchQuery
    \/ selectListedCourse

SpecSearch == InitSearch /\ [][NextSearch]_vars

----------------------------------------------------------------------------
(* Academic progress: the values derived from the displayed totals *)

\* requiredCredits === null
Null == -1

\* The effect on [selectedProgram, allPrograms]: the required credit hours
\* of the selected program, or null
requiredCredits ==
    IF selectedProgram # "" /\ Len(allPrograms) > 0
    THEN LET found == {k \in DOMAIN allPrograms : allPrograms[k].code = selectedProgram}
             program == allPrograms[CHOOSE k \in found : \A m \in found : k <= m]
         IN  IF found # {} /\ "requiredCreditHours" \in DOMAIN program
             THEN program.requiredCreditHours
             ELSE Null
    ELSE Null

\* Math.max(a, b)
MathMax(a, b) == IF a >= b THEN a ELSE b

\* n \div d in place of Math.ceil(n / d)
MathCeil_Floor(n, d) == n \div d

\* Math.ceil(n / d) for n >= 0 and d > 0
MathCeil(n, d) == (n + d - 1) \div d

\* seconds of a year of 365 days
SecondsPerYear == 365 * 24 * 60 * 60

\* new Date().getFullYear() at clock value ms, in UTC, within the first years
getFullYear(ms) == 1970 + (ms \div 1000) \div SecondsPerYear

remainingCredits ==
    IF requiredCredits # Null THEN MathMax(0, requiredCredits - totalCredits) ELSE Null

estimatedYearsRemaining ==
    IF remainingCredits # Null /\ remainingCredits > 0
    THEN MathCeil(remainingCredits, 15)
    ELSE 0

\* a year, or the text "N/A"
estimatedGraduationYear ==
    IF remainingCredits # Null /\ totalCredits > 0
    THEN [text |-> "year", year |-> getFullYear(now) + estimatedYearsRemaining]
    ELSE [text |-> "N/A"]

\* the content of the Est. Graduation cell
EstGraduationShown ==
    IF Len(allPrograms) = 0 THEN [text |-> "Loading..."]
    ELSE IF requiredCredits # Null THEN estimatedGraduationYear
    ELSE [text |-> "N/A"]

\* {semesters.length > 0 && <Card> ... Academic Progress ...}
ProgressShown == Len(semesters) > 0

\* programs.json where one program requires few credit hours and the other
\* carries no requiredCreditHours
ShortPrograms ==
    << [code |-> "cs", name |-> "Computer Science", facultyCode |-> "itc",
        requiredCreditHours |-> 16],
       [code |-> "ba", name |-> "Business Administration", facultyCode |-> "bus"] >>

\* grades of the ledgers whose totals are displayed
ProgressGrades == {"", "A", "F"}

\* A page with a program chosen and a ledger of courses of its faculty,
\* the totals not yet calculated
InitProgress ==
    /\ NoSession
    /\ allFaculties = Faculties
    /\ allPrograms \in {Programs, ShortPrograms}
    /\ allCourses = Catalog
    /\ \E p \in DOMAIN allPrograms :
          /\ selectedFaculty = allPrograms[p].facultyCode
          /\ selectedProgram = allPrograms[p].code
    /\ \E n \in 0..MaxInSemesters :
          \E size \in [1..n -> 0..Len(Catalog)] :
             /\ PrefixSum(size, n) <= MaxInEntries
             /\ \E pick \in [1..PrefixSum(size, n) -> DOMAIN Catalog] :
                   /\ \A k \in DOMAIN pick : selectedFaculty \in Catalog[pick[k]].facultyCode
                   /\ \A i \in 1..n : \A j \in 1..(size[i] - 1) :
                         pick[PrefixSum(size, i - 1) + j] < pick[PrefixSum(size, i - 1) + j + 1]
                   /\ \E grade \in [1..PrefixSum(size, n) -> ProgressGrades] :
                         semesters = InputLedger(n, size, pick, grade)
    /\ cumulativeGPA = 0
    /\ totalCredits = 0
    /\ completedCourses = 0
    /\ toast = ""
    /\ now = Len(semesters)
    /\ searchQuery = <<>>
    /\ NoServer

SpecProgress == InitProgress /\ [][NextGPA]_vars

----------------------------------------------------------------------------
(* The storage of the server: MemStorage and its Map of user records *)

\* session ids known to the clients
SessionIds == {"s1", "s2"}

\* { ...a, ...b }: the keys of both, b's value where both have the key
Spread(a, b) ==
    [k \in DOMAIN a \cup DOMAIN b |-> IF k \in DOMAIN b THEN b[k] ELSE a[k]]

\* Map.set(key, value)
MapSet(map, key, value) ==
    [k \in DOMAIN map \cup {key} |-> IF k = key THEN value ELSE map[k]]

\* a stored semester list that differs from the empty one
OneSemester == <<[id |-> 0, name |-> SemesterName(1), courses |-> <<>>]>>

\* InsertUserRecord values given to createUserRecord
InsertRecords ==
    {[sessionId |-> s, facultyCode |-> "itc", programCode |-> "cs", semesters |-> <<>>] :
        s \in SessionIds}

\* one key of a Partial<InsertUserRecord>, given or left out
OptionalKey(given) == {EmptyMap} \cup given

\* Partial<InsertUserRecord>: any of the four keys, or none
PartialRecords ==
    {Spread(Spread(Spread(a, b), c), d) :
        a \in OptionalKey({[sessionId |-> "s2"]}),
        b \in OptionalKey({[facultyCode |-> "bus"]}),
        c \in OptionalKey({[programCode |-> "ba"]}),
        d \in OptionalKey({[semesters |-> OneSemester]})}

\* MemStorage.createUserRecord: the Map, the counter and the record returned
MemStorageCreateUserRecord(records, nextId, data, time) ==
    LET newUserRecord == Spread(data, [id |-> nextId, createdAt |-> time,
                                       updatedAt |-> time])
    IN  [records   |-> MapSet(records, newUserRecord.sessionId, newUserRecord),
         currentId |-> nextId + 1,
         outcome   |-> [kind |-> "returned", record |-> newUserRecord]]

\* updateUserRecord storing the partial record when the key is missing
MemStorageUpdateUserRecord_Upserts(records, sessionId, partial, time) ==
    LET existing == IF sessionId \in DOMAIN records THEN records[sessionId] ELSE EmptyMap
        updated  == Spread(Spread(existing, partial), [updatedAt |-> time])
    IN  [records |-> MapSet(records, sessionId, updated),
         outcome |-> [kind |-> "returned", record |-> updated]]

\* MemStorage.updateUserRecord: the Map and the record returned, or the
\* Error thrown
MemStorageUpdateUserRecord(records, sessionId, partial, time) ==
    IF sessionId \notin DOMAIN records
    THEN [records |-> records,
          outcome |-> [kind |-> "thrown", message |-> "User record not found"]]
    ELSE LET existing == records[sessionId]
             updated  == Spread(Spread(existing, partial), [updatedAt |-> time])
         IN  [records |-> MapSet(records, sessionId, updated),
              outcome |-> [kind |-> "returned", record |-> updated]]

\* a call of storage.createUserRecord
StorageCreate ==
    /\ currentId <= MaxRecords
    /\ \E data \in InsertRecords :
          LET r == MemStorageCreateUserRecord(userRecords, currentId, data, now)
          IN  /\ userRecords' = r.records
              /\ currentId' = r.currentId
              /\ response' = [call    |-> [op |-> "create", data |-> data],
                              outcome |-> r.outcome]
    /\ UNCHANGED <<staticData, selection, semesters, display, toast, now,
                   session, searchQuery>>

\* a call of storage.updateUserRecord
StorageUpdate ==
    /\ \E sessionId \in SessionIds, partial \in PartialRecords :
          LET r == MemStorageUpdateUserRecord(userRecords, sessionId, partial, now)
          IN  /\ userRecords' = r.records
              /\ response' = [call    |-> [op |-> "update", sessionId |-> sessionId,
                                           partial |-> partial],
                              outcome |-> r.outcome]
    /\ UNCHANGED <<staticData, selection, semesters, display, toast, now,
                   session, searchQuery, currentId>>

NextStorage ==
    \/ (Tick /\ UNCHANGED <<session, searchQuery, server>>)
    \/ StorageCreate
    \/ StorageUpdate

SpecStorage == Init /\ [][NextStorage]_vars

----------------------------------------------------------------------------
(* Reference definitions used to state the properties *)

\* the fixed grading scale, in tenths of a point
Scale ==
    ("A" :> 40) @@ ("B+" :> 35) @@ ("B" :> 30) @@ ("C+" :> 25) @@
    ("C" :> 20) @@ ("D" :> 15) @@ ("F" :> 0)

RECURSIVE SetSum(_, _)
SetSum(f, S) ==
    IF S = {} THEN 0
    ELSE LET x == CHOOSE y \in S : TRUE IN f[x] + SetSum(f, S \ {x})

\* positions <<semester, course>> of the entries of a course list family
EntryPositions(sems) ==
    UNION {{<<i, k>> : k \in DOMAIN sems[i].courses} : i \in DOMAIN sems}

EntryAt(sems, p) == sems[p[1]].courses[p[2]]

\* entries whose grade is a key of the scale
GradedPositions(sems) ==
    {p \in EntryPositions(sems) : EntryAt(sems, p).grade \in DOMAIN Scale}

CreditSum(sems) ==
    LET G == GradedPositions(sems)
    IN  SetSum([p \in G |-> EntryAt(sems, p).credits], G)

\* sum of grade point * credits, in tenths
PointSum(sems) ==
    LET G == GradedPositions(sems)
    IN  SetSum([p \in G |-> Scale[EntryAt(sems, p).grade] * EntryAt(sems, p).credits], G)

\* g hundredths is n/d rounded to the nearest integer
IsNearest(g, n, d) == 2 * d * g - 2 * n <= d /\ 2 * n - 2 * d * g <= d

\* g hundredths is n/d rounded to the nearest integer, halves up
IsHalfUp(g, n, d) == 2 * d * g - 2 * n <= d /\ 2 * n - 2 * d * g < d

\* g is the weighted average of the ledger sems, to the nearest hundredth
IsAverageOf(g, sems) ==
    IF CreditSum(sems) = 0 THEN g = 0
    ELSE IsNearest(g, 10 * PointSum(sems), CreditSum(sems))

NoDuplicateCodes(semester) ==
    \A k, l \in DOMAIN semester.courses :
        k # l => semester.courses[k].code # semester.courses[l].code

----------------------------------------------------------------------------
(* Properties *)

\* C1: addSemester on a ledger of 12 semesters leaves the ledger as it is
\* and raises the capacity notice; below 12 it appends exactly one semester,
\* with no courses, at the end.
C1_AddSemesterCapacity ==
    [][addSemester =>
         IF Len(semesters) >= 12
         THEN semesters' = semesters /\ toast' = "Maximum semesters reached"
         ELSE /\ Len(semesters') = Len(semesters) + 1
              /\ SubSeq(semesters', 1, Len(semesters)) = semesters
              /\ semesters'[Len(semesters')].courses = <<>>]_vars

\* C1 witness: the notice was raised on a full ledger
C1_Witness == Len(semesters) = 12 /\ toast = "Maximum semesters reached"

\* C3: within each semester of the ledger no two entries have the same code.
C3_UniqueCodes == \A i \in DOMAIN semesters : NoDuplicateCodes(semesters[i])

\* C4: selecting a course already present in the target semester leaves the
\* ledger unchanged and reports the duplicate; selecting an absent one
\* appends exactly one entry, with an empty grade, to the course list of the
\* target semester.
C4_SelectCourse ==
    [][\A i \in DOMAIN semesters, c \in DOMAIN coursesByFaculty :
          handleCourseSelectAt(i, coursesByFaculty[c]) =>
             IF \E k \in DOMAIN semesters[i].courses :
                   semesters[i].courses[k].code = coursesByFaculty[c].code
             THEN semesters' = semesters /\ toast' = "Course already added"
             ELSE /\ Len(semesters') = Len(semesters)
                  /\ semesters'[i].courses =
                        Append(semesters[i].courses,
                               [NewEntry(coursesByFaculty[c]) EXCEPT !.grade = ""])]_vars

\* C7: the current-semester GPA is the weighted average of the last
\* semester of the ledger and 0 without semesters or graded courses there;
\* it is 0 right after addSemester appended a semester, and after the last
\* semester is removed it is the average of the semester that is now last.
C7_CurrentSemesterGPA ==
    /\ [](IF Len(semesters) = 0
          THEN getCurrentSemesterGPA(semesters) = 0
          ELSE IsAverageOf(getCurrentSemesterGPA(semesters),
                           <<semesters[Len(semesters)]>>))
    /\ [][(addSemester /\ Len(semesters) < 12)
            => getCurrentSemesterGPA(semesters') = 0]_vars
    /\ [][(Len(semesters) > 0 /\ removeSemesterAt(Len(semesters)))
            => IF Len(semesters') = 0
               THEN getCurrentSemesterGPA(semesters') = 0
               ELSE IsAverageOf(getCurrentSemesterGPA(semesters'),
                                <<semesters'[Len(semesters')]>>)]_vars

\* C7 witness: an earlier semester is graded, the last one is empty
C7_Witness ==
    /\ Len(semesters) >= 2
    /\ semesters[Len(semesters)].courses = <<>>
    /\ CreditSum(<<semesters[1]>>) > 0
    /\ getSemesterGPA(semesters[1]) > 0
    /\ getCurrentSemesterGPA(semesters) = 0

\* C10: adding a course to a semester and removing it again by its code
\* gives back the ledger as it was: the same entries in the same order in
\* that semester, and every other semester untouched.
C10_AddRemoveRoundTrip ==
    \A i \in DOMAIN semesters, c \in DOMAIN allCourses :
        (~ \E k \in DOMAIN semesters[i].courses :
              semesters[i].courses[k].code = allCourses[c].code)
        => LET after == removeCourseFromSemesterOf(
                           addCourseToSemester(semesters, semesters[i].id,
                                               NewEntry(allCourses[c])),
                           semesters[i].id, allCourses[c].code)
           IN  /\ Len(after) = Len(semesters)
               /\ after[i].courses = semesters[i].courses
               /\ \A j \in DOMAIN semesters : j # i => after[j] = semesters[j]

\* all orderings of the semesters of a ledger
Orderings(sems) ==
    {[i \in DOMAIN sems |-> sems[p[i]]] : p \in Permutations(DOMAIN sems)}

\* what the aggregator looks at: code, credits and grade of every entry
Content(sems) ==
    [i \in DOMAIN sems |->
        [k \in DOMAIN sems[i].courses |->
            <<sems[i].courses[k].code, sems[i].courses[k].credits,
              sems[i].courses[k].grade>>]]

Example1 == << << <<"M110", 8, "A">>, <<"MS102", 4, "B">> >> >>
Example2 == << << <<"M110", 8, "A">>, <<"MS102", 4, "B">> >>,
               << <<"EL112", 4, "C+">> >> >>

C8_OrderIndependence ==
    LET result == GPAResult(semesters)
    IN  \A perm \in Orderings(semesters) :
        /\ GPAResult(perm) = result
        /\ (Len(perm) > 0 =>
               getCurrentSemesterGPA(perm) = getSemesterGPA(perm[Len(perm)]))

\* C8 witness: reordering changes the current-semester GPA but not the
\* calculated cumulative GPA
C8_Witness ==
    /\ toast = "GPA Calculated"
    /\ cumulativeGPA > 0
    /\ \E perm \in Orderings(semesters) :
          /\ getCurrentSemesterGPA(perm) # getCurrentSemesterGPA(semesters)
          /\ GPAResult(perm).gpa = cumulativeGPA

C2_AtMostTwelve == Len(semesters) <= MaxSemesters

\* C2 witness: a ledger of 12 semesters loaded from the stored record,
\* on which one more addSemester was refused
C2_Witness ==
    /\ userRecord.exists
    /\ Len(userRecord.semesters) = MaxSemesters
    /\ semesters = userRecord.semesters
    /\ toast = "Maximum semesters reached"

----------------------------------------------------------------------------
(* Properties of the course search *)

\* two characters that differ at most in case
SameLetter(a, b) ==
    \/ a = b
    \/ a \in DOMAIN LowerCase /\ LowerCase[a] = b
    \/ b \in DOMAIN LowerCase /\ LowerCase[b] = a

\* q occurs in t as a contiguous run, case ignored
ContainsIgnoringCase(t, q) ==
    \E k \in 0..(Len(t) - Len(q)) :
        \A j \in 1..Len(q) : SameLetter(t[k + j], q[j])

\* the codes already in the first semester
ExclusionSet == {semesters[1].courses[k].code : k \in DOMAIN semesters[1].courses}

\* position of a course in the catalog held by the page
CatalogIndex(course) == CHOOSE k \in DOMAIN allCourses : allCourses[k] = course

\* the courses the filter is to return when the text filter applies from
\* queries of minLength characters on
Wanted(minLength) ==
    {c \in Range(allCourses) :
        /\ selectedFaculty \in c.facultyCode
        /\ Len(searchQuery) >= minLength =>
              \/ ContainsIgnoringCase(Text(c.code), searchQuery)
              \/ ContainsIgnoringCase(Text(c.name), searchQuery)
        /\ c.code \notin ExclusionSet}

\* result lists its courses once each, in the order of the catalog
InCatalogOrder(result) ==
    /\ Range(result) \subseteq Range(allCourses)
    /\ \A a, b \in DOMAIN result :
          a < b => CatalogIndex(result[a]) < CatalogIndex(result[b])

\* C11: the catalog filter returns, in catalog order, exactly the courses
\* that list the selected faculty, that contain the query in code or name
\* (case ignored) when the text filter applies, and whose code is not in the
\* semester's existing-course set; faculty "itc" with query "pyth" keeps
\* M110 and drops MS102; with an empty faculty the result is empty.
C11_CatalogFilter ==
    /\ InCatalogOrder(SearchResults)
    /\ Range(SearchResults) = Wanted(2)
    /\ selectedFaculty = "" => SearchResults = <<>>
    /\ (/\ selectedFaculty = "itc"
        /\ allCourses = Catalog
        /\ searchQuery = <<"p", "y", "t", "h">>
        /\ ExclusionSet = {})
       => SelectSeq(SearchResults, LAMBDA c : c.code \in {"M110", "MS102"})
             = <<Catalog[1]>>

\* a course was added from the list, then "pyth" typed: M110 alone is listed
C11_Witness ==
    /\ selectedFaculty = "itc"
    /\ toast = "Course added"
    /\ ExclusionSet = {"MS102"}
    /\ searchQuery = <<"p", "y", "t", "h">>
    /\ SearchResults = <<Catalog[1]>>

\* the existingCourses prop of a semester holding the catalog courses
\* numbered in picked
CodesOf(picked) ==
    [k \in DOMAIN EntriesOf(picked) |-> EntriesOf(picked)[k].code]

\* the catalog courses the first semester holds, by catalog number
Picked == {k \in DOMAIN Catalog : Catalog[k].code \in ExclusionSet}

\* C12: with a faculty and an empty query the filter returns exactly the
\* courses whose faculty set contains the faculty, minus those whose code is
\* in the exclusion set; for a larger exclusion set the result is a subset
\* of, and no longer than, the result for the smaller one.
C12_ExclusionMonotone ==
    (selectedFaculty # "" /\ searchQuery = <<>>) =>
        /\ Range(SearchResults) =
              {c \in Range(allCourses) : selectedFaculty \in c.facultyCode}
                 \ {c \in Range(allCourses) : c.code \in ExclusionSet}
        /\ \A larger \in SUBSET DOMAIN Catalog :
              Picked \subseteq larger =>
                 LET result == filteredCourses(allCourses, selectedFaculty,
                                               <<>>, CodesOf(larger))
                 IN  /\ Range(result) \subseteq Range(SearchResults)
                     /\ Len(result) <= Len(SearchResults)

\* a course of the faculty was added from the list and the query is empty
\* again: the list is shorter than the faculty's courses, and not empty
C12_Witness ==
    /\ selectedFaculty = "itc"
    /\ allCourses = Catalog
    /\ searchQuery = <<>>
    /\ toast = "Course added"
    /\ ExclusionSet # {}
    /\ 0 < Len(SearchResults)
    /\ Len(SearchResults) < Len(coursesByFaculty)

\* C13: a query of fewer than 2 characters is no text filter: the result
\* is the result for the empty query, all courses of the faculty not yet in
\* the semester; from 2 characters on the text filter is applied.
C13_ShortQuery ==
    /\ Len(searchQuery) < 2 =>
          /\ SearchResults = filteredCourses(allCourses, selectedFaculty, <<>>,
                                             existingCourses(semesters[1]))
          /\ Range(SearchResults) =
                {c \in Range(allCourses) : /\ selectedFaculty \in c.facultyCode
                                           /\ c.code \notin ExclusionSet}
    /\ Len(searchQuery) >= 2 => Range(SearchResults) = Wanted(0)

\* "y" typed after a course was added: a course without a "y" in code or
\* name is still listed
C13_Witness ==
    /\ selectedFaculty = "itc"
    /\ toast = "Course added"
    /\ searchQuery = <<"y">>
    /\ \E k \in DOMAIN SearchResults :
          /\ ~ ContainsIgnoringCase(Text(SearchResults[k].code), searchQuery)
          /\ ~ ContainsIgnoringCase(Text(SearchResults[k].name), searchQuery)

----------------------------------------------------------------------------
(* Properties of the selection state *)

\* C14: in every reachable state the selected program is empty or a program
\* of the selected faculty: a faculty change resets the program, and only
\* programs of the selected faculty are chosen or loaded afterwards.
C14_ProgramOfFaculty ==
    \/ selectedProgram = ""
    \/ \E k \in DOMAIN Programs :
          /\ Programs[k].code = selectedProgram
          /\ Programs[k].facultyCode = selectedFaculty

\* the faculty was changed away from the saved faculty and program
C14_Witness ==
    /\ userRecord.exists
    /\ userRecord.programCode # ""
    /\ selectedFaculty # ""
    /\ selectedFaculty # userRecord.facultyCode
    /\ selectedProgram = ""
    /\ toast = "Faculty Changed"

\* the catalog course of a ledger entry is offered by the faculty
OfferedBy(entry, faculty) ==
    \E k \in DOMAIN Catalog :
        Catalog[k].code = entry.code /\ faculty \in Catalog[k].facultyCode

\* every course entry of the ledger is a course of the selected faculty
LedgerOfFaculty ==
    \A i \in DOMAIN semesters : \A k \in DOMAIN semesters[i].courses :
        OfferedBy(semesters[i].courses[k], selectedFaculty)

\* C15: when the selected faculty changes, the semesters are emptied, the
\* cumulative GPA, the total credits and the completed-course count are
\* reset to 0 and the program is reset, so that every course entry of the
\* ledger is always a course offered by the selected faculty.
C15_FacultyChangeClears ==
    [][/\ selectedFaculty' # selectedFaculty =>
             /\ semesters' = <<>>
             /\ cumulativeGPA' = 0
             /\ totalCredits' = 0
             /\ completedCourses' = 0
             /\ selectedProgram' = ""
       /\ LedgerOfFaculty']_vars

----------------------------------------------------------------------------
(* Properties of the displayed totals *)

\* C16: GPAs are calculated automatically: after every ledger operation
\* (a semester or course added or removed, a grade set) the displayed
\* cumulative GPA, total credits and completed-course count are the
\* aggregator's result on the ledger as it then is.
C16_AutomaticGPA ==
    [][semesters' # semesters =>
          LET r == GPAResult(semesters')
          IN  /\ cumulativeGPA' = r.gpa
              /\ totalCredits' = r.credits
              /\ completedCourses' = r.completed]_vars

----------------------------------------------------------------------------
(* Properties of the academic progress *)

\* k is the least whole number of steps of d that cover n
IsCeiling(k, n, d) == k * d >= n /\ (k - 1) * d < n

\* the selected program, when the loaded programs tell its required hours
KnownProgram ==
    {k \in DOMAIN allPrograms : /\ allPrograms[k].code = selectedProgram
                                /\ "requiredCreditHours" \in DOMAIN allPrograms[k]}

\* C17: whenever the selected program's requiredCreditHours is known, the
\* remaining credits are max(0, requiredCreditHours - totalCredits) and the
\* estimated completion year shown is currentYear + ceil(remaining / 15);
\* when it is not known the estimate is "N/A".
C17_CompletionEstimate ==
    ProgressShown =>
        IF KnownProgram # {}
        THEN \A k \in KnownProgram :
                LET required == allPrograms[k].requiredCreditHours
                IN  /\ remainingCredits >= 0
                    /\ remainingCredits >= required - totalCredits
                    /\ remainingCredits \in {0, required - totalCredits}
                    /\ EstGraduationShown.text = "year"
                    /\ IsCeiling(EstGraduationShown.year - getFullYear(now),
                                 remainingCredits, 15)
        ELSE EstGraduationShown = [text |-> "N/A"]

\* C17 as the page has it: the year is shown once the displayed total
\* credits are above 0; with total credits 0, or with requiredCreditHours
\* not known, "N/A" is shown.
C17_Amended ==
    ProgressShown =>
        IF KnownProgram # {}
        THEN \A k \in KnownProgram :
                LET required == allPrograms[k].requiredCreditHours
                IN  /\ remainingCredits >= 0
                    /\ remainingCredits >= required - totalCredits
                    /\ remainingCredits \in {0, required - totalCredits}
                    /\ IF totalCredits > 0
                       THEN /\ EstGraduationShown.text = "year"
                            /\ IsCeiling(EstGraduationShown.year - getFullYear(now),
                                         remainingCredits, 15)
                       ELSE EstGraduationShown = [text |-> "N/A"]
        ELSE EstGraduationShown = [text |-> "N/A"]

\* totals calculated, 4 of 16 required credits earned: 12 remain, one year
C17_Witness ==
    /\ toast = "GPA Calculated"
    /\ requiredCredits = 16
    /\ totalCredits = 4
    /\ remainingCredits = 12
    /\ EstGraduationShown = [text |-> "year", year |-> getFullYear(now) + 1]

----------------------------------------------------------------------------
(* Properties of the storage *)

\* C18: updateUserRecord(sessionId, partial) fails with an error when no
\* record exists for sessionId, and the store is then unchanged; when a
\* record exists the result is that record overlaid with the fields of
\* partial and with updatedAt set anew, stored under the same key.
C18_UpdateUserRecord ==
    [][(response' # response /\ response'.call.op = "update") =>
          LET sessionId == response'.call.sessionId
              partial   == response'.call.partial
          IN  IF sessionId \notin DOMAIN userRecords
              THEN /\ response'.outcome.kind = "thrown"
                   /\ userRecords' = userRecords
              ELSE LET existing == userRecords[sessionId]
                       result   == response'.outcome.record
                   IN  /\ response'.outcome.kind = "returned"
                       /\ DOMAIN result = DOMAIN existing \cup DOMAIN partial
                       /\ \A k \in DOMAIN partial : result[k] = partial[k]
                       /\ \A k \in DOMAIN existing \ (DOMAIN partial \cup {"updatedAt"}) :
                             result[k] = existing[k]
                       /\ result.updatedAt = now
                       /\ DOMAIN userRecords' = DOMAIN userRecords
                       /\ userRecords'[sessionId] = result
                       /\ \A s \in DOMAIN userRecords \ {sessionId} :
                             userRecords'[s] = userRecords[s]]_vars

\* an update of a session id without a record was refused while the store
\* holds the record of another session
C18_Witness ==
    /\ response.call.op = "update"
    /\ response.outcome.kind = "thrown"
    /\ response.call.sessionId \notin DOMAIN userRecords
    /\ userRecords # EmptyMap

----------------------------------------------------------------------------
(* Properties of the persistent revision *)

\* a create is in flight only with a faculty and a program, and only while
\* the session has no stored record
CreateIsFirstWrite ==
    mutation.kind = "POST" =>
        /\ mutation.data.facultyCode # ""
        /\ mutation.data.programCode # ""
        /\ ~ store.exists

\* an update is in flight only for a session that has a stored record
UpdateHasRecord == mutation.kind = "PUT" => store.exists

\* C19: the session record is created only once a faculty and a program are
\* selected and no record exists for the session; every later write is an
\* update, so no update is issued for a session without a stored record;
\* and no step deletes a stored record.
C19_CreateThenUpdate ==
    [][/\ CreateIsFirstWrite'
       /\ UpdateHasRecord'
       /\ store.exists => store'.exists]_vars

\* C20: a returning session rehydrates its state: when a record exists for
\* the session id, the step that completes a load of it leaves the page
\* holding the record, with the selected faculty, the selected program and
\* the semester list equal to the record's; the faculty-change effect does
\* not empty that ledger.
C20_Rehydrate ==
    [][(fetching /\ ~ fetching' /\ store.exists) =>
          /\ userRecord' = Served(store)
          /\ selectedFaculty' = store.facultyCode
          /\ selectedProgram' = store.programCode
          /\ semesters' = store.semesters]_vars

\* the page was loaded again and has loaded a record holding a semester
C20_Witness ==
    /\ ~ fetching
    /\ mutation = Idle
    /\ userRecord.exists
    /\ userRecord = store
    /\ Len(userRecord.semesters) > 0
    /\ semesters = userRecord.semesters
    /\ selectedFaculty = userRecord.facultyCode
    /\ selectedProgram = userRecord.programCode
    /\ toast = ""

----------------------------------------------------------------------------
(* Properties of failing persistence calls *)

\* a step in which a get, a create or an update fails
PersistenceFails == MutationFail \/ FetchFail

\* C21: a failed persistence call (get, create or update) leaves the
\* selection and the ledger exactly as they were, and every local edit
\* action that was enabled before the failure is enabled after it.
C21_FailureKeepsState ==
    [][PersistenceFails =>
          /\ UNCHANGED <<selection, semesters>>
          /\ (ENABLED SessionFacultyChange) =>
                 (ENABLED SessionFacultyChange)'
          /\ (ENABLED (onProgramChange /\ SaveAfter)) =>
                 (ENABLED (onProgramChange /\ SaveAfter))'
          /\ (ENABLED (addSemester /\ SaveAfter)) =>
                 (ENABLED (addSemester /\ SaveAfter))'
          /\ (ENABLED (removeSemester /\ SaveAfter)) =>
                 (ENABLED (removeSemester /\ SaveAfter))'
          /\ (ENABLED (updateSemesterName /\ SaveAfter)) =>
                 (ENABLED (updateSemesterName /\ SaveAfter))'
          /\ (ENABLED (handleCourseSelect /\ SaveAfter)) =>
                 (ENABLED (handleCourseSelect /\ SaveAfter))'
          /\ (ENABLED (removeCourseFromSemester /\ SaveAfter)) =>
                 (ENABLED (removeCourseFromSemester /\ SaveAfter))'
          /\ (ENABLED (updateCourseGrade /\ SaveAfter)) =>
                 (ENABLED (updateCourseGrade /\ SaveAfter))'
      ]_vars

\* a GET failed after an update that added a course entry: the page still
\* holds the record as it was before the update, no request is being
\* fetched, and the ledger holds the entry
C21_Witness ==
    /\ ~ fetching
    /\ userRecord.exists
    /\ store.exists
    /\ userRecord.semesters # store.semesters
    /\ semesters = store.semesters
    /\ TotalEntries(semesters) > 0

----------------------------------------------------------------------------
(* Properties of the synchronisation with the stored record *)

\* the record that a write of the in-memory state would store
InMemoryRecord ==
    insertUserRecordSchema([facultyCode |-> selectedFaculty,
                            programCode |-> selectedProgram,
                            semesters   |-> semesters])

\* a load replaces the in-memory state, which had a faculty and a program
\* selected, by a record with other content
LoadReplaces ==
    /\ fetching /\ ~ fetching'
    /\ selectedFaculty # "" /\ selectedProgram # ""
    /\ InMemoryRecord' # InMemoryRecord

\* a step of the user on the page
UserActs ==
    \/ SessionFacultyChange
    \/ (onProgramChange /\ SaveAfter)
    \/ (addSemester /\ SaveAfter)
    \/ (removeSemester /\ SaveAfter)
    \/ (updateSemesterName /\ SaveAfter)
    \/ (handleCourseSelect /\ SaveAfter)
    \/ (removeCourseFromSemester /\ SaveAfter)
    \/ (updateCourseGrade /\ SaveAfter)
    \/ calculateGPA
    \/ Reload

\* no request is in flight, and with a faculty and a program selected the
\* stored record holds the in-memory faculty, program and semesters
Saved ==
    /\ mutation = Idle
    /\ ~ fetching
    /\ (selectedFaculty # "" /\ selectedProgram # "") =>
          /\ store.exists
          /\ insertUserRecordSchema(store) = InMemoryRecord

\* C22: with persistence calls that succeed in the end, once the user has
\* stopped acting, the page comes to rest with the stored record holding
\* the in-memory faculty, program and semesters.
C22_EventuallySaved == (<>[][~ UserActs]_vars) => <>[]Saved

\* C29: the synchronisation comes to rest: once the user has stopped
\* acting, only finitely many create and update requests are issued, so
\* from some point on no request is in flight.
C29_Quiesces == (<>[][~ UserActs]_vars) => <>[](mutation = Idle)

\* C30: a refetch of the session record never rolls back local edits: no
\* load replaces an in-memory state that has a faculty and a program
\* selected by a record with other content.
C30_NoRollback == [][~ LoadReplaces]_vars

----------------------------------------------------------------------------
(* Properties of the ledger operations *)

\* C23: in every reachable state the semesters of the ledger have pairwise
\* distinct ids, also when two semesters were added at the same clock value.
C23_DistinctIds ==
    \A i, j \in DOMAIN semesters :
        i # j => semesters[i].id # semesters[j].id

\* the sequence without its element at position i
Without(seq, i) == [k \in 1..(Len(seq) - 1) |-> IF k < i THEN seq[k] ELSE seq[k + 1]]

\* a step of removeSemester: the ledger gets shorter and the faculty stays
RemovesSemester ==
    /\ selectedFaculty' = selectedFaculty
    /\ Len(semesters') < Len(semesters)

\* C24: removeSemester(id) deletes the semester with that id and leaves all
\* other semesters and their order unchanged.
C24_RemoveSemester ==
    [][RemovesSemester =>
          \E i \in DOMAIN semesters : semesters' = Without(semesters, i)]_vars

\* a step of removeCourseFromSemester: the ledger keeps its semesters and
\* loses entries
RemovesCourse ==
    /\ Len(semesters') = Len(semesters)
    /\ TotalEntries(semesters') < TotalEntries(semesters)

\* C25: removeCourseFromSemester(semesterId, code) deletes the entry with
\* that code from that semester only; the other entries, their order and
\* all other semesters are unchanged.
C25_RemoveCourse ==
    [][RemovesCourse =>
          \E i \in DOMAIN semesters :
              \E k \in DOMAIN semesters[i].courses :
                  semesters' = [semesters EXCEPT
                                   ![i].courses = Without(@, k)]]_vars

\* the ledger differs from the one before in the grade of one entry only
OnlyOneGrade ==
    \E i \in DOMAIN semesters :
        \E k \in DOMAIN semesters[i].courses, grade \in GradeInputs :
            semesters' = [semesters EXCEPT ![i].courses[k].grade = grade]

\* the ledger differs from the one before in the name of one semester only
OnlyOneName ==
    \E i \in DOMAIN semesters, newName \in NameInputs :
        semesters' = [semesters EXCEPT ![i].name = newName]

\* C26: updateCourseGrade(semesterId, code, grade) changes only the grade of
\* the entry with that code in that semester, and renaming a semester
\* changes only that semester's name; every other entry, the entry order
\* and every other semester are unchanged.
C26_FrameOfUpdates ==
    [][/\ updateCourseGrade => OnlyOneGrade
       /\ updateSemesterName => OnlyOneName]_vars

\* C27: in every reachable state the grade of every course entry is empty
\* or one of the keys of the grade scale, also in a ledger that was loaded
\* from the stored record.
C27_GradesOnScale ==
    \A i \in DOMAIN semesters :
        \A k \in DOMAIN semesters[i].courses :
            semesters[i].courses[k].grade \in {""} \cup DOMAIN gradePoints

\* the page was loaded again and has loaded a ledger with a graded entry
C27_Witness ==
    /\ userRecord.exists
    /\ ~ fetching
    /\ toast = ""
    /\ semesters = userRecord.semesters
    /\ \E i \in DOMAIN semesters :
          \E k \in DOMAIN semesters[i].courses :
              semesters[i].courses[k].grade = "C+"

----------------------------------------------------------------------------
(* Server-side course search: storage.searchCourses *)

\* the catalog as the server holds it, each course with its major
majorId(code) == IF code = "EL112" THEN "english" ELSE "cs"

ServerCourses ==
    [i \in DOMAIN Catalog |->
        [code        |-> Catalog[i].code,
         name        |-> Catalog[i].name,
         credits     |-> Catalog[i].credits,
         facultyCode |-> Catalog[i].facultyCode,
         majorId     |-> majorId(Catalog[i].code)]]

Digits   == <<"0", "1", "2", "3", "4", "5", "6", "7", "8", "9">>
Capitals == <<"A", "B", "C", "D", "E", "F", "G", "H", "I", "J", "K", "L", "M",
              "N", "O", "P", "Q", "R", "S", "T", "U", "V", "W", "X", "Y", "Z">>

IndexOf(seq, x) == CHOOSE i \in DOMAIN seq : seq[i] = x

\* the character \uf8ff that ends the range of the Firestore query
HighCodePoint == "uf8ff"

\* the capital of a small letter, the character itself otherwise
UpperOf(ch) ==
    IF \E U \in DOMAIN LowerCase : LowerCase[U] = ch
    THEN CHOOSE U \in DOMAIN LowerCase : LowerCase[U] = ch
    ELSE ch

\* String.prototype.toUpperCase on the characters of the model
toUpperCase(t) == [i \in DOMAIN t |-> UpperOf(t[i])]

\* the code unit of a character
CodeUnit(ch) ==
    IF ch = " " THEN 32
    ELSE IF ch \in Range(Digits) THEN 47 + IndexOf(Digits, ch)
    ELSE IF ch \in Range(Capitals) THEN 64 + IndexOf(Capitals, ch)
    ELSE IF ch = HighCodePoint THEN 63743
    ELSE 96 + IndexOf(Capitals, UpperOf(ch))

\* a <= b in the order of Firestore strings
StringLessEq(a, b) ==
    LET differ == {i \in DOMAIN a \cap DOMAIN b : a[i] # b[i]}
    IN  IF differ = {} THEN Len(a) <= Len(b)
        ELSE LET first == CHOOSE i \in differ : \A j \in differ : i <= j
             IN  CodeUnit(a[first]) < CodeUnit(b[first])

\* orderBy('code')
RECURSIVE OrderByCode(_)
OrderByCode(courses) ==
    IF courses = <<>> THEN <<>>
    ELSE LET least == CHOOSE i \in DOMAIN courses :
                          \A j \in DOMAIN courses :
                              StringLessEq(Text(courses[i].code), Text(courses[j].code))
         IN  <<courses[least]>> \o
             OrderByCode(SelectSeq(courses, LAMBDA c : c.code # courses[least].code))

\* MemStorage.searchCourses(query, majorId)
MemStorageSearchCourses(courses, query, major) ==
    LET searchTerm == toLowerCase(query)
    IN  SelectSeq(courses, LAMBDA course :
            /\ course.majorId = major
            /\ \/ includes(toLowerCase(Text(course.code)), searchTerm)
               \/ includes(toLowerCase(Text(course.name)), searchTerm))

\* FirestoreStorage.searchCourses(searchQuery, majorId) of the revision that
\* keeps courses by major
FirestoreSearchCoursesByMajor(stored, query, major) ==
    LET courses    == OrderByCode(SelectSeq(stored, LAMBDA c : c.majorId = major))
        searchTerm == toLowerCase(query)
    IN  SelectSeq(courses, LAMBDA course :
            \/ includes(toLowerCase(Text(course.code)), searchTerm)
            \/ includes(toLowerCase(Text(course.name)), searchTerm))

\* FirestoreStorage.searchCourses(queryStr, facultyCode) of the revision that
\* keeps courses by faculty: a range query on the code
FirestoreSearchCoursesByFaculty(stored, queryStr, faculty) ==
    OrderByCode(SelectSeq(stored, LAMBDA c :
        /\ faculty \in c.facultyCode
        /\ StringLessEq(toUpperCase(queryStr), Text(c.code))
        /\ StringLessEq(Text(c.code), toUpperCase(queryStr) \o <<HighCodePoint>>)))

\* the queries and scopes sent to the search route, which refuses an empty
\* query
ServerAlphabet == {"m", "M", "1", "p", "y"}
ServerQueries  == UNION {[1..n -> ServerAlphabet] : n \in 1..MaxQueryLen}
Majors         == {majorId(Catalog[i].code) : i \in DOMAIN Catalog}
FacultyCodes   == {Faculties[i].code : i \in DOMAIN Faculties}

\* the answer to one request of the search route; a behaviour holds one
\* request
Searched(storage, query, scope, courses) ==
    /\ response = NoResponse
    /\ response' = [call    |-> [op |-> "searchCourses", storage |-> storage,
                                 query |-> query, scope |-> scope],
                    outcome |-> [kind |-> "returned", courses |-> courses]]
    /\ UNCHANGED <<staticData, selection, semesters, display, toast, now,
                   session, searchQuery, userRecords, currentId>>

MemStorageSearch ==
    \E query \in ServerQueries, major \in Majors :
        Searched("MemStorage", query, major,
                 MemStorageSearchCourses(ServerCourses, query, major))

FirestoreSearchByMajor ==
    \E query \in ServerQueries, major \in Majors :
        Searched("FirestoreStorage by major", query, major,
                 FirestoreSearchCoursesByMajor(ServerCourses, query, major))

FirestoreSearchByFaculty ==
    \E query \in ServerQueries, faculty \in FacultyCodes :
        Searched("FirestoreStorage by faculty", query, faculty,
                 FirestoreSearchCoursesByFaculty(ServerCourses, query, faculty))

NextServerSearch ==
    \/ MemStorageSearch
    \/ FirestoreSearchByMajor
    \/ FirestoreSearchByFaculty

SpecServerSearch == Init /\ [][NextServerSearch]_vars

\* the courses of the scope of a call
InScope(call) ==
    {i \in DOMAIN ServerCourses :
        IF call.storage = "FirestoreStorage by faculty"
        THEN call.scope \in ServerCourses[i].facultyCode
        ELSE call.scope = ServerCourses[i].majorId}

\* C28: in every storage implementation searchCourses returns exactly the
\* courses of the scope whose code or name contains the query, letter case
\* ignored.
C28_ServerSearch ==
    response.call.op = "searchCourses" =>
        Range(response.outcome.courses) =
            {ServerCourses[i] : i \in
                {j \in InScope(response.call) :
                    \/ ContainsIgnoringCase(Text(ServerCourses[j].code),
                                            response.call.query)
                    \/ ContainsIgnoringCase(Text(ServerCourses[j].name),
                                            response.call.query)}}

====
